---- MODULE Spec2Model ----
(***************************************************************************)
(* Model of the club scraper: the extraction engine                        *)
(* (src/src/scraper_by_scl.py, SCLScraper.extract_club_by_scl) and the     *)
(* batch drivers that persist its results                                  *)
(* (src/src/scrape_to_csv.py scrape_all_to_csv, append mode, and           *)
(* src/scripts/scrape_range.py scrape_range, overwrite-by-key mode).       *)
(***************************************************************************)
EXTENDS Integers, Sequences, FiniteSets, TLC

(***************************************************************************)
(* Values                                                                  *)
(***************************************************************************)
\* Python's None, as the value of an Optional[str] field of ClubData.
None == "<None>"

\* `x or ''` of the drivers: None and the empty string are both falsy.
OrEmpty(x) == IF x = None \/ x = "" THEN "" ELSE x

\* str(scl) of the f-string: the decimal digits of a natural number.
DecimalDigit == <<"0", "1", "2", "3", "4", "5", "6", "7", "8", "9">>
RECURSIVE Decimal(_)
Decimal(n) ==
    IF n < 10 THEN DecimalDigit[n + 1]
    ELSE Decimal(n \div 10) \o DecimalDigit[(n % 10) + 1]

\* url = f"{base_url}/recherche-clubs?scl={scl}"
UrlOf(key) == "https://gironde.fff.fr/recherche-clubs?scl=" \o Decimal(key)

(***************************************************************************)
(* Text: the str operations the extraction applies to what it captures.    *)
(***************************************************************************)
Char(s, i) == SubSeq(s, i, i)
CharsOf(s) == {Char(s, i) : i \in 1..Len(s)}

UpperLetters == "ABCDEFGHIJKLMNOPQRSTUVWXYZÉÈ"
LowerLetters == "abcdefghijklmnopqrstuvwxyzéè"
UpperSet == CharsOf(UpperLetters)
LowerSet == CharsOf(LowerLetters)
Digits == CharsOf("0123456789")
Spaces == {" ", "\t", "\n"}

\* c.isalpha(), c.isdigit(), c.isspace() on one character.
IsAlpha(c) == c \in UpperSet \/ c \in LowerSet
IsDigitChar(c) == c \in Digits
IsSpace(c) == c \in Spaces

\* str.lower().
LowerOf ==
    [c \in UpperSet |->
        Char(LowerLetters, CHOOSE i \in 1..Len(UpperLetters) : Char(UpperLetters, i) = c)]
LowerChar(c) == IF c \in UpperSet THEN LowerOf[c] ELSE c
RECURSIVE Lower(_)
Lower(s) == IF s = "" THEN "" ELSE LowerChar(Char(s, 1)) \o Lower(Tail(s))

\* `sub in s`.
Contains(s, sub) ==
    \E i \in 1..(Len(s) - Len(sub) + 1) : SubSeq(s, i, i + Len(sub) - 1) = sub

\* any(w in s for w in words).
ContainsAny(s, words) == \E w \in words : Contains(s, w)

\* str.strip().
RECURSIVE LStrip(_)
LStrip(s) == IF s # "" /\ IsSpace(Char(s, 1)) THEN LStrip(Tail(s)) ELSE s
RECURSIVE RStrip(_)
RStrip(s) ==
    IF s # "" /\ IsSpace(Char(s, Len(s))) THEN RStrip(SubSeq(s, 1, Len(s) - 1)) ELSE s
Strip(s) == RStrip(LStrip(s))

\* any(c.isalpha() for c in s).
HasAlpha(s) == \E i \in 1..Len(s) : IsAlpha(Char(s, i))

\* len(s.split()): the number of maximal runs of non-space characters.
WordCount(s) ==
    Cardinality({i \in 1..Len(s) :
        ~IsSpace(Char(s, i)) /\ (i = 1 \/ IsSpace(Char(s, i - 1)))})

\* re.sub(r'[^\d]', '', s).
RECURSIVE DigitsOnly(_)
DigitsOnly(s) ==
    IF s = "" THEN ""
    ELSE (IF IsDigitChar(Char(s, 1)) THEN Char(s, 1) ELSE "") \o DigitsOnly(Tail(s))

\* re.sub(r'\s+', ' ', s).
RECURSIVE CollapseSpaces(_)
CollapseSpaces(s) ==
    IF s = "" THEN ""
    ELSE IF IsSpace(Char(s, 1))
         THEN " " \o CollapseSpaces(LStrip(s))
         ELSE Char(s, 1) \o CollapseSpaces(Tail(s))

\* re.sub(r'<[^>]+>', '', s): a "<", at least one character that is no ">",
\* and the next ">" are removed; a "<" that opens no such tag stays.
TagEnd(s) ==
    IF \E j \in 3..Len(s) : Char(s, j) = ">" /\ Char(s, 2) # ">"
    THEN CHOOSE j \in 3..Len(s) :
            /\ Char(s, j) = ">"
            /\ \A k \in 3..(j - 1) : Char(s, k) # ">"
    ELSE 0
RECURSIVE RemoveTags(_)
RemoveTags(s) ==
    IF s = "" THEN ""
    ELSE IF Char(s, 1) = "<" /\ TagEnd(s) > 0
         THEN RemoveTags(SubSeq(s, TagEnd(s) + 1, Len(s)))
         ELSE Char(s, 1) \o RemoveTags(Tail(s))

(***************************************************************************)
(* The rendered page of one key, as far as extract_club_by_scl reads it.   *)
(*   nav1, nav2 : outcome of page.goto and of its retry                    *)
(*   content    : outcome of page.content()                                *)
(*   marker     : the digits captured by N°affiliation (\d+), or None      *)
(*   cand       : per name strategy, the texts it examines, in order (the  *)
(*                inner_text of the elements it queries, the captures of   *)
(*                its patterns, the page title)                            *)
(*   dom_error  : the name strategies whose DOM query raises an Exception  *)
(*   email_*    : what the patterns of each email label capture            *)
(*   phones     : per phone label, the captures of its patterns, in order  *)
(*   adresse_regex : the captures of the three address patterns, in order  *)
(*                (None: no match)                                         *)
(*   field_error: the field step in which an Exception is raised, if any   *)
(***************************************************************************)
\* The name strategies, in the order the code tries them.
Strategies == <<"h1", "regex", "proximity", "h2scan", "other", "title">>

\* Strategies whose body runs under a bare `except:`, which also catches
\* KeyboardInterrupt (proximity: line 245, other elements: line 312).
BareExceptStrategies == {"proximity", "other"}

\* Strategies whose Exception is caught inside the strategy, so that the
\* following strategies still run (h1: line 145, proximity: 245, other: 312).
\* An Exception of the h2 scan or of page.title() reaches line 327 and ends
\* the whole name block.
LocalExceptStrategies == {"h1", "proximity", "other"}

\* The points of extract_club_by_scl at which a KeyboardInterrupt can arrive.
ExtractPoints ==
    {"nav1", "nav2", "content", "h1", "regex", "proximity", "h2scan", "other",
     "title", "fields", "adresse_dom", "adresse_regex"}

\* The exclusion lists of the strategies (lines 129, 151, 227, 250, 278).
ExcludedH1 == {"accueil", "gironde", "paris", "ensemble", "écrivons"}
ExcludedRegex ==
    {"accueil", "gironde", "paris", "ensemble", "écrivons", "résultats",
     "calendrier"}
ExcludedProximity ==
    {"accueil", "ligue", "gironde", "paris", "ensemble", "écrivons",
     "résultats", "calendrier", "équipes", "staff", "terrains", "siège social"}
ExcludedH2Scan ==
    ExcludedProximity \cup
        {"n°affiliation", "installations", "rencontres", "prochaines", "dernières"}
ExcludedOther == ExcludedProximity

\* Lines 133, 266, 301:
\* 'district de la' in t or ('district de' in t and 'club district' not in t).
DistrictRuleOr(t) ==
    \/ Contains(t, "district de la")
    \/ Contains(t, "district de") /\ ~Contains(t, "club district")

\* Lines 236-238: the proximity strategy nests the two tests.
DistrictRuleNested(t) ==
    /\ Contains(t, "district de la") \/ Contains(t, "district de")
    /\ ~Contains(t, "club district")

\* Lines 140-142, 185-188, 240-243: the plausibility tests, with or without
\* the test on the number of words.
PlausibleLength(text) == text # "" /\ Len(text) > 5 /\ Len(text) < 100
SeveralWordsOrLong(text) == WordCount(text) > 1 \/ Len(text) > 8

\* Lines 125-144: one h1 element.  "club ligue" resets is_excluded, and
\* there is no test on the number of words.
H1Accepts(raw) ==
    LET text == Strip(raw)
        t == Lower(text)
        listed == ContainsAny(t, ExcludedH1) \/ DistrictRuleOr(t)
        is_excluded == IF Contains(t, "club ligue") THEN FALSE ELSE listed
    IN PlausibleLength(text) /\ ~is_excluded /\ HasAlpha(text)

\* The group ([A-Z][A-Z\s\.\-\']{5,80}?) of the patterns of lines 157-161,
\* under re.IGNORECASE: what a capture of the textual strategy looks like.
AsciiLower == CharsOf("abcdefghijklmnopqrstuvwxyz")
NameClass == AsciiLower \cup Spaces \cup {".", "-", "'"}
IsNameCapture(raw) ==
    /\ Len(raw) >= 6 /\ Len(raw) <= 81
    /\ LowerChar(Char(raw, 1)) \in AsciiLower
    /\ \A i \in 1..Len(raw) : LowerChar(Char(raw, i)) \in NameClass

\* Lines 172-183: the loop over excluded_words.  The district test is made
\* only when the word of the list is 'district', which the list of line 151
\* does not contain.
RegexExcluded(t) ==
    \E w \in ExcludedRegex :
        /\ Contains(t, w)
        /\ w = "district" => DistrictRuleOr(t)

\* Lines 164-190: one capture of the textual strategy.
RegexAccepts(raw) ==
    LET potential_nom == Strip(raw)
        t == Lower(potential_nom)
    IN /\ IsNameCapture(raw)
       /\ Len(potential_nom) > 5 /\ Len(potential_nom) < 100
       /\ ~RegexExcluded(t)
       /\ HasAlpha(potential_nom)
       /\ SeveralWordsOrLong(potential_nom)

\* Lines 221-244: the h2 closest above the affiliation element.
ProximityAccepts(raw) ==
    LET text == Strip(raw)
        t == Lower(text)
        is_excluded == ContainsAny(t, ExcludedProximity) \/ DistrictRuleNested(t)
    IN PlausibleLength(text) /\ ~is_excluded /\ HasAlpha(text)
       /\ SeveralWordsOrLong(text)

\* Lines 256-274: one h2 of the scan of all h2 elements.
H2ScanAccepts(raw) ==
    LET text == Strip(raw)
        t == Lower(text)
        is_navigation == ContainsAny(t, ExcludedH2Scan) \/ DistrictRuleOr(t)
    IN PlausibleLength(text) /\ ~is_navigation /\ HasAlpha(text)
       /\ SeveralWordsOrLong(text)

\* Lines 291-309: one element of the other selectors.
OtherAccepts(raw) ==
    LET text == Strip(raw)
        t == Lower(text)
        is_excluded == ContainsAny(t, ExcludedOther) \/ DistrictRuleOr(t)
    IN PlausibleLength(text) /\ ~is_excluded /\ HasAlpha(text)
       /\ SeveralWordsOrLong(text)

\* Lines 320-322: re.split(r'[|\-]', title)[0].strip().
RECURSIVE TitlePart(_)
TitlePart(title) ==
    IF title = "" \/ Char(title, 1) \in {"|", "-"} THEN ""
    ELSE Char(title, 1) \o TitlePart(Tail(title))

\* Lines 317-326: the page title; only a lower bound on the length and two
\* excluded words.
TitleAccepts(raw) ==
    LET potential_nom == Strip(TitlePart(raw))
        t == Lower(potential_nom)
    IN /\ raw # ""
       /\ Len(potential_nom) > 5
       /\ ~Contains(t, "recherche")
       /\ ~Contains(t, "district")

\* Whether strategy s accepts the text raw, and the name it assigns to nom.
Accepts(s, raw) ==
    CASE s = "h1" -> H1Accepts(raw)
      [] s = "regex" -> RegexAccepts(raw)
      [] s = "proximity" -> ProximityAccepts(raw)
      [] s = "h2scan" -> H2ScanAccepts(raw)
      [] s = "other" -> OtherAccepts(raw)
      [] s = "title" -> TitleAccepts(raw)
NameOf(s, raw) == IF s = "title" THEN Strip(TitlePart(raw)) ELSE Strip(raw)

\* The texts a strategy passes through its filter: the proximity strategy
\* and the title strategy test one text, the others loop until one passes.
Examined(s, texts) ==
    IF s \in {"proximity", "title"} /\ Len(texts) > 1 THEN <<texts[1]>> ELSE texts

\* The name a strategy returns for the page: the first text that passes, or
\* None.
CandidateOf(page, s) ==
    LET texts == Examined(s, page.cand[s])
        ok == {i \in 1..Len(texts) : Accepts(s, texts[i])}
    IN IF ok = {} THEN None
       ELSE NameOf(s, texts[CHOOSE i \in ok : \A j \in ok : i <= j])

\* The outcome of strategy s on the page: "error" (a DOM query raises an
\* Exception), "accept" (a text passes the filter), "reject" (none does).
StrategyOutcome(page, s) ==
    IF s \in page.dom_error THEN "error"
    ELSE IF CandidateOf(page, s) # None THEN "accept"
    ELSE "reject"

\* Lines 117-329: the name block, from strategy number i on, nom still None.
\* Result: nom (None when no strategy accepted), by (the accepting strategy),
\* kbd (a KeyboardInterrupt leaves the block), swallowed (a KeyboardInterrupt
\* was caught by a bare except inside the block), raised (an Exception ended
\* the block at the except of line 327).
RECURSIVE NameFrom(_, _, _)
NameFrom(page, intr, i) ==
    IF i > Len(Strategies)
    THEN [nom |-> None, by |-> None, kbd |-> FALSE, swallowed |-> FALSE,
          raised |-> FALSE]
    ELSE LET s == Strategies[i] IN
         IF intr = s
         THEN IF s \in BareExceptStrategies
              THEN [NameFrom(page, "none", i + 1) EXCEPT !.swallowed = TRUE]
              ELSE [nom |-> None, by |-> None, kbd |-> TRUE, swallowed |-> FALSE,
                    raised |-> FALSE]
         ELSE LET name == CandidateOf(page, s)
              IN IF s \in page.dom_error
                 THEN IF s \in LocalExceptStrategies
                      THEN NameFrom(page, intr, i + 1)
                      ELSE [nom |-> None, by |-> None, kbd |-> FALSE,
                            swallowed |-> FALSE, raised |-> TRUE]
                 ELSE IF name # None
                 THEN [nom |-> name, by |-> s, kbd |-> FALSE, swallowed |-> FALSE,
                       raised |-> FALSE]
                 ELSE NameFrom(page, intr, i + 1)

ExtractName(page, intr) == NameFrom(page, intr, 1)

\* Faulty variant: the except of the retry passes instead of returning None.
Navigate_passes(page, intr) ==
    IF intr = "nav1" THEN "kbd" ELSE "ok"

\* Lines 93-100: the navigation and its single retry.  "ok": a goto
\* succeeded; "failed": both raised an Exception (return None, line 100);
\* "kbd": KeyboardInterrupt during the first goto (except Exception does not
\* catch it); "swallowed": KeyboardInterrupt during the retry, caught by the
\* bare except of line 99 (return None).
Navigate(page, intr) ==
    IF intr = "nav1" THEN "kbd"
    ELSE IF page.nav1 = "ok" THEN "ok"
    ELSE IF intr = "nav2" THEN "swallowed"
    ELSE IF page.nav2 = "ok" THEN "ok"
    ELSE "failed"

\* Lines 94-106: the calls made on the browser session before the markup is
\* searched: the goto, its retry after an Exception, and after a goto that
\* succeeded the settle delay and page.content().
SessionCalls(page, intr) ==
    (IF intr = "nav1" \/ page.nav1 = "ok" THEN <<"goto">> ELSE <<"goto", "goto">>)
    \o (IF Navigate(page, intr) = "ok" THEN <<"sleep", "content">> ELSE <<>>)

\* Faulty variant: the official address is preferred to the principal one.
CoalesceEmail_officiel(page) ==
    IF page.email_officiel # None THEN page.email_officiel
    ELSE IF page.email_principal # None THEN page.email_principal
    ELSE page.email_autre

\* Line 390: email_principal or email_officiel or email_autre.
CoalesceEmail(page) ==
    IF page.email_principal # None THEN page.email_principal
    ELSE IF page.email_officiel # None THEN page.email_officiel
    ELSE page.email_autre

\* Faulty variant: the first capture is taken whatever its number of digits.
PhoneFrom_first(captures, i) ==
    IF i > Len(captures) THEN None ELSE DigitsOnly(Strip(captures[i]))

\* Lines 406-415 (and 424-431, 440-447, 456-468, 477-484): the first
\* capture of a label whose digits are at least 6, as digits; None if none.
RECURSIVE PhoneFrom(_, _)
PhoneFrom(captures, i) ==
    IF i > Len(captures) THEN None
    ELSE LET phone_clean == DigitsOnly(Strip(captures[i])) IN
         IF Len(phone_clean) >= 6 THEN phone_clean
         ELSE PhoneFrom(captures, i + 1)

\* Lines 393-487: the labels in the order travail, domicile, mobile, autre;
\* the generic label is searched only when the four gave nothing (line 471).
ExtractTelephone(page) ==
    LET telephone_travail == PhoneFrom(page.phones.travail, 1)
        telephone_domicile == PhoneFrom(page.phones.domicile, 1)
        mobile_personnel == PhoneFrom(page.phones.mobile, 1)
        labelled_autre == PhoneFrom(page.phones.autre, 1)
        telephone_autre ==
            IF telephone_travail = None /\ telephone_domicile = None
               /\ mobile_personnel = None /\ labelled_autre = None
            THEN PhoneFrom(page.phones.generic, 1)
            ELSE labelled_autre
    IN IF telephone_travail # None THEN telephone_travail
       ELSE IF telephone_domicile # None THEN telephone_domicile
       ELSE IF mobile_personnel # None THEN mobile_personnel
       ELSE telephone_autre

\* The structured lookup of lines 495-511.  page.query_selector takes no
\* `timeout` argument (and ':contains' is no selector of the engine), so the
\* call of line 495 raises; the bare except of line 512 catches it, as it
\* catches any other error of the lookup, and adresse stays None.
AdresseFromDom(page) == None

\* Lines 527-529: tags removed, stripped, whitespace collapsed.
NormalizeAdresse(capture) == CollapseSpaces(Strip(RemoveTags(capture)))

\* Lines 524-531: the patterns in order, from pattern i on.  A match assigns
\* adresse; the loop ends at the first value longer than 10, and otherwise
\* leaves the last value assigned.
RECURSIVE AdresseFromRegex(_, _, _)
AdresseFromRegex(captures, i, adresse) ==
    IF i > Len(captures) THEN adresse
    ELSE IF captures[i] = None THEN AdresseFromRegex(captures, i + 1, adresse)
    ELSE LET a == NormalizeAdresse(captures[i]) IN
         IF Len(a) > 10 THEN a ELSE AdresseFromRegex(captures, i + 1, a)

\* Lines 489-531: the regex fallback runs `if not adresse`.
ExtractAdresse(page) ==
    LET adresse == AdresseFromDom(page) IN
    IF adresse = None \/ adresse = ""
    THEN AdresseFromRegex(page.adresse_regex, 1, adresse)
    ELSE adresse

\* The field steps whose Exception no inner try catches: it reaches the
\* except of line 546, which returns None.
UncaughtFieldErrors == {"email", "telephone", "adresse_regex"}

\* Faulty variant: the affiliation number "0" is rejected like an empty one.
AffiliationRejected_zero(numero_affiliation, nom) ==
    numero_affiliation = "0" \/ numero_affiliation = ""

\* Lines 337-341: "0" with a name passes; an empty number would be rejected,
\* but (\d+) never captures an empty string.
AffiliationRejected(numero_affiliation, nom) ==
    IF numero_affiliation = "0" /\ nom # None THEN FALSE
    ELSE numero_affiliation = ""

ReturnNone(sw) ==
    [kind |-> "none", club |-> None, by |-> None, swallowed |-> sw,
     markup |-> FALSE]
RaiseKbd ==
    [kind |-> "kbd", club |-> None, by |-> None, swallowed |-> FALSE,
     markup |-> FALSE]

\* extract_club_by_scl(scl) on `page`, a KeyboardInterrupt arriving at point
\* `intr` ("none": no interrupt).  kind: "found" (a ClubData is returned),
\* "none" (None is returned), "kbd" (KeyboardInterrupt propagates to the
\* caller).  swallowed: the interrupt arrived and was caught inside.
\* markup: page.content() returned the markup of the page (line 106).
extract_club_by_scl(key, page, intr) ==
    LET nav == Navigate(page, intr) IN
    IF nav = "kbd" THEN RaiseKbd
    ELSE IF nav = "swallowed" THEN ReturnNone(TRUE)
    ELSE IF nav = "failed" THEN ReturnNone(FALSE)
    ELSE IF intr = "content" THEN RaiseKbd
    ELSE IF page.content # "ok" THEN ReturnNone(FALSE)
    ELSE LET n == ExtractName(page, intr)
             r == IF page.marker = None THEN ReturnNone(FALSE)
                  ELSE IF n.kbd THEN RaiseKbd
                  ELSE IF n.nom = None THEN ReturnNone(n.swallowed)
                  ELSE IF AffiliationRejected(page.marker, n.nom)
                       THEN ReturnNone(n.swallowed)
                  ELSE IF intr \in {"fields", "adresse_regex"} THEN RaiseKbd
                  ELSE IF page.field_error \in UncaughtFieldErrors
                       THEN ReturnNone(n.swallowed)
                  ELSE [kind |-> "found",
                        club |-> [nom |-> n.nom,
                                  numero_affiliation |-> page.marker,
                                  email |-> CoalesceEmail(page),
                                  telephone |-> ExtractTelephone(page),
                                  adresse |-> ExtractAdresse(page),
                                  url_detail |-> UrlOf(key)],
                        by |-> n.by,
                        swallowed |-> n.swallowed \/ intr = "adresse_dom",
                        markup |-> TRUE]
         IN [r EXCEPT !.markup = TRUE]

\* Line 548: the test on str(e) and on the type of e.
IsTimeout(err) == err = "timeout"

\* Line 328: the message of the except of the name block (it has no key).
NameLog == [text |-> "Erreur extraction nom", scl |-> None]

\* Lines 546-550: the except of the whole body prints the key and the error,
\* unless the error is a timeout.
OuterLog(key, err) ==
    IF IsTimeout(err) THEN <<>> ELSE <<[text |-> "Erreur pour scl", scl |-> key]>>

\* The messages extract_club_by_scl prints, in order.  The `return None` of
\* line 100 prints nothing; an Exception of page.content() or of a field
\* step (an error of the session or of a pattern search, no timeout) reaches
\* line 546.
ExtractLogs(key, page, intr) ==
    IF Navigate(page, intr) # "ok" THEN <<>>
    ELSE IF intr = "content" THEN <<>>
    ELSE IF page.content # "ok" THEN OuterLog(key, page.content)
    ELSE IF page.marker = None THEN <<>>
    ELSE LET n == ExtractName(page, intr)
             name_log == IF n.raised THEN <<NameLog>> ELSE <<>>
         IN IF n.kbd THEN <<>>
            ELSE IF n.nom = None THEN name_log
            ELSE IF AffiliationRejected(page.marker, n.nom) THEN name_log
            ELSE IF intr \in {"fields", "adresse_regex"} THEN name_log
            ELSE IF page.field_error \in UncaughtFieldErrors
                 THEN name_log \o OuterLog(key, "error")
            ELSE name_log


(***************************************************************************)
(* Pages                                                                   *)
(***************************************************************************)
StrategySet == {Strategies[i] : i \in 1..Len(Strategies)}

NoCandidate == [s \in StrategySet |-> <<>>]
NoPhone ==
    [travail |-> <<>>, domicile |-> <<>>, mobile |-> <<>>, autre |-> <<>>,
     generic |-> <<>>]

\* A club page as the site renders it (the example of line 120 and 493).
ClubPage ==
    [nav1 |-> "ok", nav2 |-> "ok", content |-> "ok", marker |-> "6504",
     cand |-> [NoCandidate EXCEPT !["h1"] = <<"CLUB DISTRICT GERS">>,
                                  !["title"] = <<"Recherche clubs">>],
     dom_error |-> {},
     email_principal |-> "club@fff.fr", email_officiel |-> "off@fff.fr",
     email_autre |-> None,
     phones |-> NoPhone,
     adresse_regex |-> <<" Route de lavacant   - 32000 - AUCH ", None, None>>,
     field_error |-> "none"]

\* The federation page (line 335): affiliation "0", no contact field, the
\* name found by the proximity strategy after a retried navigation.
FederationPage ==
    [ClubPage EXCEPT !.nav1 = "timeout", !.marker = "0",
                     !.cand = [NoCandidate EXCEPT !["proximity"] =
                                 <<"CLUB FEDERATION FRANCAISE DE FOOTBALL">>],
                     !.dom_error = {"h1"},
                     !.email_principal = None, !.email_officiel = None,
                     !.adresse_regex = <<None, None, None>>]

\* A key without club: no affiliation marker in the markup.
EmptyPage == [ClubPage EXCEPT !.marker = None]

\* A page with the marker on which no strategy accepts a name.
NamelessPage == [ClubPage EXCEPT !.cand = NoCandidate]

\* A key whose navigation and retry both fail.
DeadPage == [ClubPage EXCEPT !.nav1 = "timeout", !.nav2 = "error"]

\* The pages the drivers meet.
DriverPages == {ClubPage, EmptyPage, NamelessPage, DeadPage}

\* The pages of the extraction specification: every combination of
\* navigation, markup and strategy outcomes (the regex strategy makes no DOM
\* query and cannot raise).
StratMaps ==
    {f \in [StrategySet -> {"accept", "reject", "error"}] : f["regex"] # "error"}

\* A text that strategy s accepts.
AcceptedText(s) == IF s = "title" THEN "U.S. AUCH | FFF" ELSE "CLUB DISTRICT GERS"

ExtractPages ==
    {[ClubPage EXCEPT !.nav1 = nv[1], !.nav2 = nv[2], !.content = cm[1],
                      !.marker = cm[2],
                      !.cand = [s \in StrategySet |->
                                  IF f[s] = "accept" THEN <<AcceptedText(s)>>
                                  ELSE <<>>],
                      !.dom_error = {s \in StrategySet : f[s] = "error"}] :
        nv \in {<<"ok", "ok">>, <<"timeout", "ok">>, <<"timeout", "timeout">>,
                <<"error", "ok">>, <<"error", "error">>},
        cm \in {<<"ok", None>>, <<"ok", "0">>, <<"ok", "6504">>, <<"error", "6504">>},
        f \in StratMaps}

\* Texts that the elements, the captures and the title of a page can hold.
LongTitle ==
    "ASSOCIATION SPORTIVE ET CULTURELLE DES ANCIENS ELEVES DES ECOLES PUBLIQUES"
    \o " DE LA VILLE ET DE SES ENVIRONS"
NameTexts ==
    {"CLUB DISTRICT GERS", "DISTRICT DE LA GIRONDE", "DISTRICT DE L'AIN",
     "CLUB DISTRICT DE LA LOIRE", "CLUB LIGUE ALSACE", "LIGUE DE BRETAGNE",
     "  U.S. AUCH  ", "FCAUCH", "AUCH", "PARIS FC", "123456 789",
     "F.C. AUCH - FFF", LongTitle}

\* Pages with the marker whose strategies in S examine the text T, and pages
\* on which one strategy examines two texts in turn.
NamePages ==
    {[ClubPage EXCEPT !.cand = [s \in StrategySet |->
                                  IF s \in S THEN <<T>> ELSE <<>>]] :
        S \in SUBSET StrategySet, T \in NameTexts}
    \cup
    {[ClubPage EXCEPT !.cand = [NoCandidate EXCEPT ![s] = <<T1, T2>>]] :
        s \in StrategySet, T1 \in NameTexts, T2 \in NameTexts}

\* What the patterns of a phone label can capture ([0-9\s\.\-\(\)]{6,}): no
\* match, a number, fewer than 6 digits, and fewer than 6 digits by the
\* first pattern then a number by a later one.
PhoneCaptures ==
    {<<>>, <<"05 62 63 00 00 ">>, <<"(0) 12 . ">>, <<"12.3-4", "056263">>}
\* The captures of a label, made different from label to label by a prefix.
Marked(m, captures) == [i \in 1..Len(captures) |-> m \o captures[i]]

EmailPages ==
    {[ClubPage EXCEPT !.email_principal = p, !.email_officiel = o,
                      !.email_autre = a] :
        p \in {None, "club@fff.fr"}, o \in {None, "off@fff.fr"},
        a \in {None, "autre@fff.fr"}}

PhonePages ==
    {[ClubPage EXCEPT !.phones =
        [travail |-> Marked("1", t), domicile |-> Marked("2", d),
         mobile |-> Marked("3", m), autre |-> Marked("4", a),
         generic |-> Marked("5", g)]] :
        t \in PhoneCaptures, d \in PhoneCaptures, m \in PhoneCaptures,
        a \in PhoneCaptures \ {<<"12.3-4", "056263">>},
        g \in PhoneCaptures \ {<<"12.3-4", "056263">>}}

\* What an address pattern can capture: no match, an address, a text of 10
\* characters or fewer, a text that is short once normalized.
AdresseCaptures ==
    {None, " Route de lavacant   - 32000 - AUCH ", " AUCH", "  32000 \n  AUCH   "}
AdressePages ==
    {[ClubPage EXCEPT !.adresse_regex = <<a1, a2, a3>>] :
        a1 \in AdresseCaptures, a2 \in AdresseCaptures, a3 \in AdresseCaptures}

\* Pages on which a field step raises an Exception.
FieldErrorPages ==
    {[pg EXCEPT !.field_error = e] :
        pg \in {ClubPage, FederationPage},
        e \in {"email", "telephone", "adresse_dom", "adresse_regex"}}

FieldPages == EmailPages \cup PhonePages \cup AdressePages \cup FieldErrorPages

(***************************************************************************)
(* State                                                                   *)
(***************************************************************************)
VARIABLES
    \* one call of extract_club_by_scl
    x_pc, x_scl, x_page, x_intr, x_result, x_calls, x_logs,
    \* scrape_all_to_csv: the output file and the locals of the run
    file_exists, file, pc, arg_resume, batch_size, read_ok, existing_scls,
    resume_from, start_scl, scl,
    \* history of the runs of scrape_all_to_csv
    runs, init_ok, fetched, results, signalled, prev_results, prev_end,
    \* scrape_range: the output file and the locals of the run
    r_exists, r_file, r_pc, r_start, r_end, r_scl, all_data,
    \* history of the run of scrape_range (r_sigkey: the key in process when
    \* the first KeyboardInterrupt arrived, 0 when none did)
    r_exists0, r_file0, r_results, r_signalled, r_sigkey,
    \* two processes running scrape_range on one output file: the file, and
    \* per process its arguments, its position, its all_data and its results
    w_exists, w_file, w_range, w_pc, w_scl, w_data, w_results, w_overlap,
    \* scrape_range run twice on unchanged pages: the page of each key, the
    \* number of the run, and the file the first run left
    site, r_run, r_file1

extractVars == <<x_pc, x_scl, x_page, x_intr, x_result, x_calls, x_logs>>
appendVars == <<file_exists, file, pc, arg_resume, batch_size, read_ok,
                existing_scls, resume_from, start_scl, scl>>
appendHist == <<runs, init_ok, fetched, results, signalled, prev_results,
                prev_end>>
rangeVars == <<r_exists, r_file, r_pc, r_start, r_end, r_scl, all_data>>
rangeHist == <<r_exists0, r_file0, r_results, r_signalled, r_sigkey>>
workerVars == <<w_exists, w_file, w_range, w_pc, w_scl, w_data, w_results,
                w_overlap>>
rescrapeVars == <<site, r_run, r_file1>>
vars == <<extractVars, appendVars, appendHist, rangeVars, rangeHist, workerVars,
          rescrapeVars>>

(***************************************************************************)
(* One call of extract_club_by_scl                                         *)
(***************************************************************************)
InitExtractIdle ==
    /\ x_pc = "idle" /\ x_scl = 0 /\ x_page = ClubPage /\ x_intr = "none"
    /\ x_result = ReturnNone(FALSE) /\ x_calls = <<>> /\ x_logs = <<>>

InitExtract ==
    /\ x_pc = "call"
    /\ x_scl \in {6504}
    /\ \/ x_page \in ExtractPages /\ x_intr = "none"
       \/ x_page \in DriverPages \cup {FederationPage} /\ x_intr \in ExtractPoints
       \/ x_page \in NamePages \cup FieldPages /\ x_intr = "none"
    /\ x_result = ReturnNone(FALSE) /\ x_calls = <<>> /\ x_logs = <<>>

ExtractCall ==
    /\ x_pc = "call"
    /\ x_result' = extract_club_by_scl(x_scl, x_page, x_intr)
    /\ x_calls' = SessionCalls(x_page, x_intr)
    /\ x_logs' = ExtractLogs(x_scl, x_page, x_intr)
    /\ x_pc' = "returned"
    /\ UNCHANGED <<x_scl, x_page, x_intr>>


(***************************************************************************)
(* The CSV file                                                            *)
(***************************************************************************)
\* The text of a scl cell: what csv writes for an int (str(k)), a text that
\* is no number, or the empty string.
NumCell(k) == [kind |-> "num", n |-> k]
TextCell == [kind |-> "text", n |-> 0]
EmptyCell == [kind |-> "empty", n |-> 0]

\* `if row.get('scl')`: a non-empty cell.
Truthy(cell) == cell.kind # "empty"
\* int(cell) raises ValueError unless the cell is the text of an integer.
IntRaises(cell) == cell.kind # "num"
IntOf(cell) == cell.n

Max(S) == CHOOSE m \in S : \A k \in S : k <= m
Min2(a, b) == IF a <= b THEN a ELSE b

\* The keys of the data rows of a file, row by row.
KeysOf(f) == {f[i].scl.n : i \in {j \in 1..Len(f) : f[j].scl.kind = "num"}}
RowsOfKey(f, k) == {i \in 1..Len(f) : f[i].scl = NumCell(k)}

\* Faulty variant: the row is keyed by the first key of the batch instead of the key
\* fetched (one key for every club of the run).
AppendRowOf_samekey(k, club) ==
    [scl |-> NumCell(1),
     nom |-> club.nom,
     numero_affiliation |-> OrEmpty(club.numero_affiliation),
     email |-> OrEmpty(club.email),
     telephone |-> OrEmpty(club.telephone),
     adresse |-> OrEmpty(club.adresse),
     url_detail |-> OrEmpty(club.url_detail)]

\* writer.writerow of scrape_all_to_csv, lines 93-101.
AppendRowOf(k, club) ==
    [scl |-> NumCell(k),
     nom |-> club.nom,
     numero_affiliation |-> OrEmpty(club.numero_affiliation),
     email |-> OrEmpty(club.email),
     telephone |-> OrEmpty(club.telephone),
     adresse |-> OrEmpty(club.adresse),
     url_detail |-> OrEmpty(club.url_detail)]

\* The row of a key that was attempted and has no club (spec, section 3).
PlaceholderRow(k) ==
    [scl |-> NumCell(k), nom |-> "", numero_affiliation |-> "", email |-> "",
     telephone |-> "", adresse |-> "", url_detail |-> ""]

\* A row that an earlier run left in the file.
OldRow(cell) ==
    [scl |-> cell, nom |-> "OLD CLUB", numero_affiliation |-> "1",
     email |-> "", telephone |-> "", adresse |-> "", url_detail |-> ""]

(***************************************************************************)
(* Bounds                                                                  *)
(***************************************************************************)
\* max_scl of the runs.
MaxScl == 3
\* Number of successive runs of scrape_all_to_csv on the file.
MaxRuns == 2
\* Number of data rows of the file before the first run.
MaxInitRows == 1
\* Largest batch_size.
MaxBatch == 2

\* Largest key of the ranges of scrape_range and of the rows of its file.
RangeMax == 2
\* Number of data rows of the file before the run of scrape_range.
RangeInitRows == 2

Keys == 1..MaxScl
RangeKeys == 1..RangeMax

\* The resume_from arguments of the runs: the default, and an explicit key.
StartArgs == {1, 2}

\* The sequences of at most n rows with pairwise distinct keys.
KeyedFiles(n) ==
    {f \in UNION {[1..m -> {OldRow(NumCell(k)) : k \in Keys}] : m \in 0..n} :
        \A i, j \in 1..Len(f) : i # j => f[i] # f[j]}

\* The files that can exist before the first run: rows of distinct keys in
\* any order, then possibly a damaged last row (a scl cell that is no number)
\* or a row with an empty scl cell.
InitFiles ==
    {f \o tail : f \in KeyedFiles(MaxInitRows),
                 tail \in {<<>>, <<OldRow(TextCell)>>, <<OldRow(EmptyCell)>>}}

(***************************************************************************)
(* scrape_all_to_csv                                                       *)
(***************************************************************************)
\* Lines 36-40: the keys read from rows i.. of the file, until int() raises.
RECURSIVE ReadFrom(_, _, _)
ReadFrom(f, i, acc) ==
    IF i > Len(f) THEN [ok |-> TRUE, scls |-> acc]
    ELSE IF ~Truthy(f[i].scl) THEN ReadFrom(f, i + 1, acc)
    ELSE IF IntRaises(f[i].scl) THEN [ok |-> FALSE, scls |-> acc]
    ELSE ReadFrom(f, i + 1, acc \cup {IntOf(f[i].scl)})

\* Lines 31-46: existing_scls and whether the read reached the end.
ReadExisting(exists, f, arg) ==
    IF exists /\ arg = 1 THEN ReadFrom(f, 1, {})
    ELSE [ok |-> TRUE, scls |-> {}]

\* Faulty variant: the resume point counts the rows instead of taking the largest key.
ResumePoint_count(rd, arg) ==
    IF rd.ok /\ rd.scls # {} THEN Cardinality(rd.scls) + 1 ELSE arg

\* Lines 42-44: the resume point.
ResumePoint(rd, arg) ==
    IF rd.ok /\ rd.scls # {} THEN Max(rd.scls) + 1 ELSE arg

\* Lines 60-61: append to the file, or restart it from the header.
OpensInAppendMode(exists, scls) == exists /\ Cardinality(scls) > 0

InitAppendIdle ==
    /\ file_exists = FALSE /\ file = <<>> /\ pc = "idle"
    /\ arg_resume = 1 /\ batch_size = 1 /\ read_ok = TRUE
    /\ existing_scls = {} /\ resume_from = 1 /\ start_scl = 1 /\ scl = 1
    /\ runs = 0 /\ init_ok = TRUE
    /\ fetched = <<>> /\ results = {} /\ signalled = FALSE
    /\ prev_results = {} /\ prev_end = "none"

\* No row of the file has a scl cell on which int() raises.
Readable(f) == \A i \in 1..Len(f) : ~(Truthy(f[i].scl) /\ IntRaises(f[i].scl))

InitAppend ==
    /\ \/ file_exists = FALSE /\ file = <<>>
       \/ file_exists = TRUE /\ file \in InitFiles
    /\ pc = "idle"
    /\ arg_resume = 1 /\ batch_size = 1 /\ read_ok = TRUE
    /\ existing_scls = {} /\ resume_from = 1 /\ start_scl = 1 /\ scl = 1
    /\ runs = 0 /\ init_ok = Readable(file)
    /\ fetched = <<>> /\ results = {} /\ signalled = FALSE
    /\ prev_results = {} /\ prev_end = "none"

\* Lines 16-74: the call, up to the first iteration of the loops.
StartRun(arg, bs) ==
    /\ pc \in {"idle", "completed", "interrupted", "crashed"}
    /\ runs < MaxRuns
    /\ LET rd == ReadExisting(file_exists, file, arg)
           rf == ResumePoint(rd, arg)
       IN /\ existing_scls' = rd.scls
          /\ read_ok' = rd.ok
          /\ resume_from' = rf
          /\ file' = IF OpensInAppendMode(file_exists, rd.scls) THEN file ELSE <<>>
          /\ start_scl' = rf
          /\ scl' = rf
          /\ pc' = IF rf > MaxScl THEN "stats" ELSE "running"
    /\ file_exists' = TRUE
    /\ arg_resume' = arg
    /\ batch_size' = bs
    /\ runs' = runs + 1
    /\ fetched' = <<>>
    /\ results' = {}
    /\ signalled' = FALSE
    /\ prev_results' = results
    /\ prev_end' = pc
    /\ UNCHANGED <<extractVars, init_ok, rangeVars, rangeHist, workerVars, rescrapeVars>>

\* Faulty variant: the last batch is not cut at max_scl.
EndScl_uncut == start_scl + batch_size - 1

\* Line 75.
EndScl == Min2(start_scl + batch_size - 1, MaxScl)

\* The loop headers of lines 74 and 83: the next key, the next batch, or the
\* end of the loops.
Advance ==
    IF scl < EndScl
    THEN /\ scl' = scl + 1
         /\ pc' = "running"
         /\ UNCHANGED start_scl
    ELSE IF start_scl + batch_size <= MaxScl
         THEN /\ start_scl' = start_scl + batch_size
              /\ scl' = start_scl + batch_size
              /\ pc' = "running"
         ELSE /\ pc' = "stats"
              /\ UNCHANGED <<start_scl, scl>>

\* Lines 85-86: a key of existing_scls is not fetched.
SkipKey ==
    /\ pc = "running"
    /\ scl \in existing_scls
    /\ Advance
    /\ UNCHANGED <<file_exists, file, arg_resume, batch_size, read_ok,
                   existing_scls, resume_from>>
    /\ UNCHANGED <<extractVars, appendHist, rangeVars, rangeHist, workerVars, rescrapeVars>>

\* Points of the loop body, outside extract_club_by_scl, at which a
\* KeyboardInterrupt can arrive: before writerow, and after flush.
DriverPoints == {"driver_pre", "driver_post"}

\* Lines 91-102: the row is written only for a ClubData.
WritesRow(o) == o.kind = "found"

\* What a call of extract_club_by_scl(k) can return or raise on the pages the
\* drivers meet, the interrupt arriving at any point of it or not at all.
DriverOutcomes ==
    {extract_club_by_scl(k, page, intr) :
        k \in Keys \cup RangeKeys, page \in DriverPages,
        intr \in ExtractPoints \cup {"none"}}
ExtractOutcomes(k) ==
    LET url == UrlOf(k) IN
    {o \in DriverOutcomes : o.kind = "found" => o.club.url_detail = url}

\* Lines 88-120: one key is fetched and its result handled.  `at` is the
\* point of the loop body at which a KeyboardInterrupt arrives, if any.
FetchKey ==
    /\ pc = "running"
    /\ scl \notin existing_scls
    /\ \E o \in ExtractOutcomes(scl), at \in DriverPoints \cup {"none"} :
         LET inDriver == o.kind # "kbd" /\ at \in DriverPoints
             wrote == WritesRow(o) /\ at # "driver_pre"
             finished == o.kind # "kbd" /\ at # "driver_pre"
             stop == o.kind = "kbd" \/ inDriver
         IN /\ file' = IF wrote THEN Append(file, AppendRowOf(scl, o.club)) ELSE file
            /\ results' = IF finished THEN results \cup {<<scl, o.kind>>} ELSE results
            /\ signalled' = (signalled \/ stop \/ o.swallowed)
            /\ IF stop
               THEN pc' = "interrupted" /\ UNCHANGED <<start_scl, scl>>
               ELSE Advance
    /\ fetched' = Append(fetched, scl)
    /\ UNCHANGED <<file_exists, arg_resume, batch_size, read_ok, existing_scls,
                   resume_from>>
    /\ UNCHANGED <<extractVars, runs, init_ok, prev_results, prev_end>>
    /\ UNCHANGED <<rangeVars, rangeHist, workerVars, rescrapeVars>>

\* Lines 133-144: the final statistics divide by the number of keys tested.
StatsRaise == MaxScl - resume_from + 1 = 0

Finish ==
    /\ pc = "stats"
    /\ pc' = IF StatsRaise THEN "crashed" ELSE "completed"
    /\ UNCHANGED <<file_exists, file, arg_resume, batch_size, read_ok,
                   existing_scls, resume_from, start_scl, scl>>
    /\ UNCHANGED <<extractVars, appendHist, rangeVars, rangeHist, workerVars, rescrapeVars>>

(***************************************************************************)
(* scrape_range                                                            *)
(***************************************************************************)

\* A digit character that str.isdigit() accepts and int() rejects.
SupCell == [kind |-> "sup", n |-> 0]

\* scl_key.isdigit(), line 50: digits only, so no sign.
IsDigit(cell) == (cell.kind = "num" /\ cell.n >= 0) \/ cell.kind = "sup"

\* f"{club_time:.2f}": the measured time of one key.
Times == {"0.42", "1.07"}

\* Lines 80-89: the row of a club.
RangeRowOf(k, club, t) ==
    [scl |-> NumCell(k),
     nom |-> club.nom,
     numero_affiliation |-> OrEmpty(club.numero_affiliation),
     email |-> OrEmpty(club.email),
     telephone |-> OrEmpty(club.telephone),
     adresse |-> OrEmpty(club.adresse),
     url_detail |-> OrEmpty(club.url_detail),
     temps_extraction |-> t]

\* Lines 101-110: the row of a key without club.
RangeEmptyRow(k, t) ==
    [scl |-> NumCell(k), nom |-> "", numero_affiliation |-> "", email |-> "",
     telephone |-> "", adresse |-> "", url_detail |-> "", temps_extraction |-> t]

\* A row that an earlier run left in the file.
RangeOldRow(cell, name) ==
    [scl |-> cell, nom |-> name, numero_affiliation |-> "1", email |-> "",
     telephone |-> "", adresse |-> "", url_detail |-> "", temps_extraction |-> ""]

\* The rows and the files that can exist before the run: any rows in any
\* order, keys repeated or not.
RangeInitRowSet ==
    {RangeOldRow(c, "OLD CLUB") :
        c \in {NumCell(k) : k \in RangeKeys} \cup {TextCell, SupCell}}
    \cup {RangeOldRow(NumCell(1), "OLDER CLUB")}
RangeInitFiles == UNION {[1..n -> RangeInitRowSet] : n \in 0..RangeInitRows}

\* A dict, as a function on its keys.
EmptyDict == [k \in {} |-> 0]

\* Faulty variant: the assignment forgets the other keys of the dict.
DictSet_only(d, k, v) == [x \in {k} |-> v]

\* d[k] = v.
DictSet(d, k, v) == [x \in DOMAIN d \cup {k} |-> IF x = k THEN v ELSE d[x]]

\* Lines 46-51: the rows i.. of the file into existing_data; a later row of
\* a key replaces the earlier one.
RECURSIVE LoadFrom(_, _, _)
LoadFrom(f, i, d) ==
    IF i > Len(f) THEN [ok |-> TRUE, data |-> d]
    ELSE IF ~(Truthy(f[i].scl) /\ IsDigit(f[i].scl)) THEN LoadFrom(f, i + 1, d)
    ELSE IF IntRaises(f[i].scl) THEN [ok |-> FALSE, data |-> d]
    ELSE LoadFrom(f, i + 1, DictSet(d, IntOf(f[i].scl), f[i]))

\* Faulty variant: the file is not read, existing_data stays empty.
LoadExisting_unread(exists, f) == EmptyDict

\* Lines 41-54: existing_data; a read that raises leaves it empty.
LoadExisting(exists, f) ==
    IF ~exists THEN EmptyDict
    ELSE LET ld == LoadFrom(f, 1, EmptyDict) IN
         IF ld.ok THEN ld.data ELSE EmptyDict

\* Faulty variant: a key that has a row keeps it (setdefault instead of assignment).
MergeRow_keep(d, k, row) == IF k \in DOMAIN d THEN d ELSE DictSet(d, k, row)

\* Lines 80 and 101: all_data[scl] = row, replacing the row of the key.
MergeRow(d, k, row) == DictSet(d, k, row)

\* sorted(all_data.keys()), line 129.
RECURSIVE SortedSeq(_)
SortedSeq(S) ==
    IF S = {} THEN <<>>
    ELSE LET m == CHOOSE x \in S : \A y \in S : x <= y
         IN <<m>> \o SortedSeq(S \ {m})

\* Faulty variant: the keys in descending order (sorted(..., reverse=True)).
WriteOrder_reverse(d) ==
    [i \in 1..Cardinality(DOMAIN d) |->
        SortedSeq(DOMAIN d)[Cardinality(DOMAIN d) + 1 - i]]

WriteOrder(d) == SortedSeq(DOMAIN d)

\* Faulty variant: the header line takes the place of the first row.
NewContent_tail(d) ==
    LET ks == SortedSeq(DOMAIN d) IN [i \in 1..(Len(ks) - 1) |-> d[ks[i + 1]]]

\* The rows the rewrite of lines 124-130 writes, in order.
NewContent(d) == [i \in 1..Len(WriteOrder(d)) |-> d[WriteOrder(d)[i]]]

InitRangeIdle ==
    /\ r_exists = FALSE /\ r_file = <<>> /\ r_pc = "idle"
    /\ r_start = 1 /\ r_end = 1 /\ r_scl = 1 /\ all_data = EmptyDict
    /\ r_exists0 = FALSE /\ r_file0 = <<>> /\ r_results = {}
    /\ r_signalled = FALSE /\ r_sigkey = 0

InitRange ==
    /\ \/ r_exists = FALSE /\ r_file = <<>>
       \/ r_exists = TRUE /\ r_file \in RangeInitFiles
    /\ r_pc = "idle"
    /\ r_start = 1 /\ r_end = 1 /\ r_scl = 1 /\ all_data = EmptyDict
    /\ r_exists0 = r_exists /\ r_file0 = r_file
    /\ r_results = {} /\ r_signalled = FALSE /\ r_sigkey = 0

\* Lines 16-63: the call, up to the first iteration of the loop.
RangeStart(a, b) ==
    /\ r_pc = "idle"
    /\ r_start' = a
    /\ r_end' = b
    /\ r_scl' = a
    /\ all_data' = LoadExisting(r_exists, r_file)
    /\ r_pc' = "loop"
    /\ UNCHANGED <<r_exists, r_file, rangeHist>>
    /\ UNCHANGED <<extractVars, appendVars, appendHist, workerVars, rescrapeVars>>

\* Points of the loop body, outside extract_club_by_scl, at which a
\* KeyboardInterrupt can arrive: inside the try before and after all_data is
\* updated, and outside the try (lines 64-65 and 120).
RangeDriverPoints == {"driver_pre", "driver_post", "driver_outside"}

\* Lines 63-120: one key is fetched and its row put into all_data.
RangeKey ==
    /\ r_pc = "loop"
    /\ \E o \in ExtractOutcomes(r_scl), t \in Times,
          at \in RangeDriverPoints \cup {"none"} :
         LET inDriver == o.kind # "kbd" /\ at \in RangeDriverPoints
             finished == o.kind # "kbd" /\ at \notin {"driver_pre", "driver_outside"}
             row == IF o.kind = "found" THEN RangeRowOf(r_scl, o.club, t)
                    ELSE RangeEmptyRow(r_scl, t)
             stop == o.kind = "kbd" \/ inDriver
         IN /\ all_data' = IF finished THEN MergeRow(all_data, r_scl, row) ELSE all_data
            /\ r_results' = IF finished THEN r_results \cup {<<r_scl, row, o.markup>>}
                            ELSE r_results
            /\ r_signalled' = (r_signalled \/ stop \/ o.swallowed)
            /\ r_sigkey' = IF r_sigkey = 0 /\ (stop \/ o.swallowed) THEN r_scl ELSE r_sigkey
            /\ r_pc' = IF inDriver /\ at = "driver_outside" THEN "aborted"
                       ELSE IF stop \/ r_scl = r_end THEN "open"
                       ELSE "loop"
            /\ r_scl' = IF stop \/ r_scl = r_end THEN r_scl ELSE r_scl + 1
    /\ UNCHANGED <<r_exists, r_file, r_start, r_end, r_exists0, r_file0>>
    /\ UNCHANGED <<extractVars, appendVars, appendHist, workerVars, rescrapeVars>>

\* Lines 122-130: the file is opened with 'w', which empties it, and the
\* header and every row of all_data are written in the order of the keys.
RangeRewrite ==
    /\ r_pc = "open"
    /\ r_exists' = TRUE
    /\ r_file' = NewContent(all_data)
    /\ r_pc' = "done"
    /\ UNCHANGED <<r_start, r_end, r_scl, all_data, rangeHist>>
    /\ UNCHANGED <<extractVars, appendVars, appendHist, workerVars, rescrapeVars>>

\* The process dies (kill, power loss) during the rewrite, after open() and
\* n of the rows: the file keeps what was written.
RangeRewriteDies ==
    /\ r_pc = "open"
    /\ \E n \in 0..Len(NewContent(all_data)) :
         r_file' = SubSeq(NewContent(all_data), 1, n)
    /\ r_exists' = TRUE
    /\ r_pc' = "dead"
    /\ UNCHANGED <<r_start, r_end, r_scl, all_data, rangeHist>>
    /\ UNCHANGED <<extractVars, appendVars, appendHist, workerVars, rescrapeVars>>

(***************************************************************************)
(* Two processes running scrape_range on one output file                   *)
(***************************************************************************)
Workers == {1, 2}
OtherWorker(w) == 3 - w

\* Number of data rows of the shared file before the processes start.
WorkerInitRows == 1
WorkerInitFiles == UNION {[1..n -> RangeInitRowSet] : n \in 0..WorkerInitRows}

\* The arguments of the two calls: disjoint ranges a..m and m+1..b.
WorkerRanges ==
    {[w \in Workers |-> IF w = 1 THEN <<a, m>> ELSE <<m + 1, b>>] :
        a \in RangeKeys, m \in RangeKeys, b \in RangeKeys}
    \cap [Workers -> {<<a, b>> \in RangeKeys \X RangeKeys : a <= b}]

InitWorkersIdle ==
    /\ w_exists = FALSE /\ w_file = <<>>
    /\ w_range = [w \in Workers |-> <<1, 1>>]
    /\ w_pc = [w \in Workers |-> "idle"]
    /\ w_scl = [w \in Workers |-> 1]
    /\ w_data = [w \in Workers |-> EmptyDict]
    /\ w_results = [w \in Workers |-> {}]
    /\ w_overlap = FALSE

InitWorkers ==
    /\ \/ w_exists = FALSE /\ w_file = <<>>
       \/ w_exists = TRUE /\ w_file \in WorkerInitFiles
    /\ w_range \in WorkerRanges
    /\ w_pc = [w \in Workers |-> "idle"]
    /\ w_scl = [w \in Workers |-> w_range[w][1]]
    /\ w_data = [w \in Workers |-> EmptyDict]
    /\ w_results = [w \in Workers |-> {}]
    /\ w_overlap = FALSE

\* Lines 16-63 in process w: the file is read into all_data.  The call
\* overlaps the other one when that one has read the file and not yet
\* rewritten it.
WorkerStart(w) ==
    /\ w_pc[w] = "idle"
    /\ w_data' = [w_data EXCEPT ![w] = LoadExisting(w_exists, w_file)]
    /\ w_pc' = [w_pc EXCEPT ![w] = "loop"]
    /\ w_overlap' = (w_overlap \/ w_pc[OtherWorker(w)] \in {"loop", "open"})
    /\ UNCHANGED <<w_exists, w_file, w_range, w_scl, w_results>>
    /\ UNCHANGED <<extractVars, appendVars, appendHist, rangeVars, rangeHist,
                   rescrapeVars>>

\* Lines 63-120 in process w: one key is fetched and its row put into the
\* all_data of the process.
WorkerKey(w) ==
    /\ w_pc[w] = "loop"
    /\ \E o \in ExtractOutcomes(w_scl[w]), t \in Times,
          at \in RangeDriverPoints \cup {"none"} :
         LET k == w_scl[w]
             last == k = w_range[w][2]
             inDriver == o.kind # "kbd" /\ at \in RangeDriverPoints
             finished == o.kind # "kbd" /\ at \notin {"driver_pre", "driver_outside"}
             row == IF o.kind = "found" THEN RangeRowOf(k, o.club, t)
                    ELSE RangeEmptyRow(k, t)
             stop == o.kind = "kbd" \/ inDriver
         IN /\ w_data' = IF finished
                         THEN [w_data EXCEPT ![w] = MergeRow(w_data[w], k, row)]
                         ELSE w_data
            /\ w_results' = IF finished
                            THEN [w_results EXCEPT ![w] = @ \cup {<<k, row>>}]
                            ELSE w_results
            /\ w_pc' = [w_pc EXCEPT ![w] =
                          IF inDriver /\ at = "driver_outside" THEN "aborted"
                          ELSE IF stop \/ last THEN "open"
                          ELSE "loop"]
            /\ w_scl' = IF stop \/ last THEN w_scl ELSE [w_scl EXCEPT ![w] = k + 1]
    /\ UNCHANGED <<w_exists, w_file, w_range, w_overlap>>
    /\ UNCHANGED <<extractVars, appendVars, appendHist, rangeVars, rangeHist,
                   rescrapeVars>>

\* Lines 122-130 in process w: the file is rewritten from the all_data of
\* the process.
WorkerRewrite(w) ==
    /\ w_pc[w] = "open"
    /\ w_exists' = TRUE
    /\ w_file' = NewContent(w_data[w])
    /\ w_pc' = [w_pc EXCEPT ![w] = "done"]
    /\ UNCHANGED <<w_range, w_scl, w_data, w_results, w_overlap>>
    /\ UNCHANGED <<extractVars, appendVars, appendHist, rangeVars, rangeHist,
                   rescrapeVars>>

(***************************************************************************)
(* scrape_range run twice over one range, the pages unchanged              *)
(***************************************************************************)
\* What extract_club_by_scl(k) returns or raises on each page, the interrupt
\* arriving at each point of it or not at all.
PageOutcomes ==
    {[key |-> k, page |-> page, intr |-> intr,
      o |-> extract_club_by_scl(k, page, intr)] :
        k \in RangeKeys, page \in DriverPages,
        intr \in ExtractPoints \cup {"none"}}
OutcomesOn(k, page) ==
    {e.o : e \in {x \in PageOutcomes : x.key = k /\ x.page = page}}

\* The page of a key is the one its first fetch meets; no page is known
\* before.
NoSite == [k \in {} |-> ClubPage]

InitRescrapeIdle == site = NoSite /\ r_run = 0 /\ r_file1 = <<>>

\* Number of data rows of the file before the first call.
RescrapeInitRows == 1
\* The rows of that file: a row per key, and a row whose scl cell makes the
\* read of the file raise.
RescrapeInitRowSet ==
    {RangeOldRow(c, "OLD CLUB") : c \in {NumCell(k) : k \in RangeKeys} \cup {SupCell}}
RescrapeInitFiles ==
    UNION {[1..n -> RescrapeInitRowSet] : n \in 0..RescrapeInitRows}

\* The pages of the keys: a club, no club, and a navigation that fails.
RescrapePages == {ClubPage, EmptyPage, DeadPage}

InitRescrape ==
    /\ \/ r_exists = FALSE /\ r_file = <<>>
       \/ r_exists = TRUE /\ r_file \in RescrapeInitFiles
    /\ r_pc = "idle"
    /\ r_start = 1 /\ r_end = 1 /\ r_scl = 1 /\ all_data = EmptyDict
    /\ r_exists0 = r_exists /\ r_file0 = r_file
    /\ r_results = {} /\ r_signalled = FALSE /\ r_sigkey = 0
    /\ site = NoSite /\ r_run = 0 /\ r_file1 = <<>>

\* Lines 16-63: the first call.
RescrapeStart(a, b) ==
    /\ r_pc = "idle"
    /\ r_start' = a
    /\ r_end' = b
    /\ r_scl' = a
    /\ all_data' = LoadExisting(r_exists, r_file)
    /\ r_pc' = "loop"
    /\ r_run' = 1
    /\ UNCHANGED <<r_exists, r_file, rangeHist, site, r_file1>>
    /\ UNCHANGED <<extractVars, appendVars, appendHist, workerVars>>

\* Lines 16-63: the second call, with the arguments of the first, on the
\* file that the first call, uninterrupted, has rewritten.
RescrapeAgain ==
    /\ r_pc = "done" /\ r_run = 1 /\ ~r_signalled
    /\ r_file1' = r_file
    /\ r_scl' = r_start
    /\ all_data' = LoadExisting(r_exists, r_file)
    /\ r_results' = {}
    /\ r_pc' = "loop"
    /\ r_run' = 2
    /\ UNCHANGED <<r_exists, r_file, r_start, r_end, r_exists0, r_file0,
                   r_signalled, r_sigkey, site>>
    /\ UNCHANGED <<extractVars, appendVars, appendHist, workerVars>>

\* Lines 63-120: one key is fetched, its page being the one of `site` when
\* the key was fetched before, and its row put into all_data.
RescrapeKey ==
    /\ r_pc = "loop"
    /\ \E page \in IF r_scl \in DOMAIN site THEN {site[r_scl]} ELSE RescrapePages :
       \E o \in OutcomesOn(r_scl, page), t \in Times,
          at \in RangeDriverPoints \cup {"none"} :
         LET inDriver == o.kind # "kbd" /\ at \in RangeDriverPoints
             finished == o.kind # "kbd" /\ at \notin {"driver_pre", "driver_outside"}
             row == IF o.kind = "found" THEN RangeRowOf(r_scl, o.club, t)
                    ELSE RangeEmptyRow(r_scl, t)
             stop == o.kind = "kbd" \/ inDriver
         IN /\ all_data' = IF finished THEN MergeRow(all_data, r_scl, row) ELSE all_data
            /\ r_results' = IF finished THEN r_results \cup {<<r_scl, row, o.markup>>}
                            ELSE r_results
            /\ r_signalled' = (r_signalled \/ stop \/ o.swallowed)
            /\ r_sigkey' = IF r_sigkey = 0 /\ (stop \/ o.swallowed) THEN r_scl ELSE r_sigkey
            /\ r_pc' = IF inDriver /\ at = "driver_outside" THEN "aborted"
                       ELSE IF stop \/ r_scl = r_end THEN "open"
                       ELSE "loop"
            /\ r_scl' = IF stop \/ r_scl = r_end THEN r_scl ELSE r_scl + 1
            /\ site' = DictSet(site, r_scl, page)
    /\ UNCHANGED <<r_exists, r_file, r_start, r_end, r_exists0, r_file0>>
    /\ UNCHANGED <<r_run, r_file1>>
    /\ UNCHANGED <<extractVars, appendVars, appendHist, workerVars>>

(***************************************************************************)
(* Specifications                                                          *)
(***************************************************************************)
\* Successive runs of scrape_all_to_csv on one output file.
Init == InitExtractIdle /\ InitAppend /\ InitRangeIdle /\ InitWorkersIdle
    /\ InitRescrapeIdle

Next ==
    \/ \E arg \in StartArgs, bs \in 1..MaxBatch : StartRun(arg, bs)
    \/ SkipKey
    \/ FetchKey
    \/ Finish

Spec == Init /\ [][Next]_vars

\* One call of extract_club_by_scl.
ExtractInit == InitExtract /\ InitAppendIdle /\ InitRangeIdle /\ InitWorkersIdle
    /\ InitRescrapeIdle

ExtractNext ==
    ExtractCall
    /\ UNCHANGED <<appendVars, appendHist, rangeVars, rangeHist, workerVars, rescrapeVars>>

SpecExtract == ExtractInit /\ [][ExtractNext]_vars

\* One run of scrape_range on an output file.
RangeInit ==
    /\ InitExtractIdle /\ InitAppendIdle /\ InitRange /\ InitWorkersIdle
    /\ InitRescrapeIdle

RangeNext ==
    \/ \E a \in RangeKeys, b \in RangeKeys : a <= b /\ RangeStart(a, b)
    \/ RangeKey
    \/ RangeRewrite
    \/ RangeRewriteDies

SpecRange == RangeInit /\ [][RangeNext]_vars

\* Two processes running scrape_range on one output file, their steps
\* interleaved in any order.
WorkersInit ==
    /\ InitExtractIdle /\ InitAppendIdle /\ InitRangeIdle /\ InitWorkers
    /\ InitRescrapeIdle

WorkersNext ==
    \/ \E w \in Workers : WorkerStart(w)
    \/ \E w \in Workers : WorkerKey(w)
    \/ \E w \in Workers : WorkerRewrite(w)

SpecWorkers == WorkersInit /\ [][WorkersNext]_vars

\* scrape_range called twice with the same arguments, the page of every key
\* being the same in both calls.
RescrapeInit ==
    InitExtractIdle /\ InitAppendIdle /\ InitWorkersIdle /\ InitRescrape

RescrapeNext ==
    \/ \E a \in RangeKeys, b \in RangeKeys : a <= b /\ RescrapeStart(a, b)
    \/ RescrapeKey
    \/ RangeRewrite
    \/ RescrapeAgain

SpecRescrape == RescrapeInit /\ [][RescrapeNext]_vars


(***************************************************************************)
(* Properties of scrape_all_to_csv                                         *)
(***************************************************************************)
\* The rows the file held when the current run opened it in append mode: the
\* run has appended one row per club found since.
FoundKeys(res) == {r[1] : r \in {q \in res : q[2] = "found"}}
AbsentKeys(res) == {r[1] : r \in {q \in res : q[2] = "none"}}
StartLen == Len(file) - Cardinality(FoundKeys(results))
StartKeys == KeysOf(SubSeq(file, 1, StartLen))
FetchedKeys == {fetched[i] : i \in 1..Len(fetched)}

\* C1: a run called with the default resume_from on a readable file whose
\* rows carry the non-empty key set S fetches max(S)+1 first, whatever gaps S
\* has, and fetches no key <= max(S).
C1_ResumeAfterMax ==
    (pc # "idle" /\ arg_resume = 1 /\ read_ok /\ StartKeys # {}) =>
        /\ Len(fetched) > 0 => fetched[1] = Max(StartKeys) + 1
        /\ \A k \in FetchedKeys : k > Max(StartKeys)

\* C1 witness: the file held a key set with a gap, and the run has fetched.
C1_Witness ==
    /\ pc # "idle" /\ arg_resume = 1 /\ read_ok
    /\ StartKeys # {}
    /\ \E k \in 1..Max(StartKeys) : k \notin StartKeys
    /\ Len(fetched) > 0
    /\ fetched[1] = Max(StartKeys) + 1

\* C2: on a file that was absent or readable before the first run, no key
\* appears in more than one data row, after any number of runs, completed or
\* interrupted at any key.
C2_NoDuplicateKey ==
    init_ok => \A k \in KeysOf(file) : Cardinality(RowsOfKey(file, k)) = 1

\* C2 witness: a resumed run after an interrupted one has appended a row to
\* the rows the earlier run left.
C2_Witness ==
    /\ init_ok /\ runs = 2 /\ prev_end = "interrupted" /\ arg_resume = 1
    /\ FoundKeys(prev_results) # {}
    /\ FoundKeys(results) # {}
    /\ pc \in {"completed", "interrupted"}

\* C3 (as claimed): in a run resumed after an interrupted run, no key whose
\* processing finished in the interrupted run, Found or NotFound, is fetched.
C3_NoRefetch ==
    (init_ok /\ arg_resume = 1 /\ prev_end = "interrupted") =>
        \A r \in prev_results : r[1] \notin FetchedKeys

\* C6 (as claimed): a KeyboardInterrupt that arrives while a key is processed
\* ends the run, the clubs found so far being in the file.
C6_InterruptStops ==
    signalled =>
        /\ pc = "interrupted"
        /\ \A k \in FoundKeys(results) : RowsOfKey(file, k) # {}

\* C9 (as claimed): a processed key without club has a row with its scl and
\* every other field empty.
C9_AbsentKeyHasRow ==
    \A k \in AbsentKeys(results) : \E i \in 1..Len(file) : file[i] = PlaceholderRow(k)

\* C11 (as claimed): a run whose read of the existing file raised at some row
\* goes on as if there were no file: no known key, the scan from key 1, the
\* file restarted from the header.
C11_ReadFailureIsEmptyState ==
    (pc # "idle" /\ ~read_ok) =>
        /\ existing_scls = {}
        /\ resume_from = 1
        /\ StartLen = 0

\* C12 (as claimed): whatever resume_from the caller passes, 1 included, the
\* file is not read, it is restarted from the header, and the first key
\* fetched is resume_from.
C12_ExplicitStartWins ==
    pc # "idle" =>
        /\ existing_scls = {}
        /\ StartLen = 0
        /\ Len(fetched) > 0 => fetched[1] = arg_resume

\* The last key the run has reached, and the keys due up to it: the keys
\* from the resume point on that are not in existing_scls.
LastReached ==
    IF pc = "running" THEN scl - 1 ELSE IF pc = "interrupted" THEN scl ELSE MaxScl
DueKeys == {k \in resume_from..LastReached : k \notin existing_scls}
\* The rows the run has appended to the file.
RunRows == SubSeq(file, StartLen + 1, Len(file))

\* C23: the keys a run fetches and the rows it writes do not depend on
\* batch_size: at every point of a run, whatever batch_size, the keys
\* fetched are the due keys from the resume point to the key reached, in
\* ascending order, each once, and the rows appended are those of the clubs
\* found, in the same order.
C23_BatchSizeIrrelevant ==
    pc # "idle" =>
        /\ fetched = SortedSeq(DueKeys)
        /\ Len(RunRows) = Cardinality(FoundKeys(results))
        /\ \A i \in 1..Len(RunRows) :
             RunRows[i].scl = NumCell(SortedSeq(FoundKeys(results))[i])

\* C23 witness: a run with batch_size 2 from key 1 has completed its second
\* batch, having fetched the keys 1, 2, 3 and written a row in each batch.
C23_Witness ==
    /\ pc = "completed" /\ batch_size = 2 /\ resume_from = 1
    /\ start_scl = 3
    /\ fetched = <<1, 2, 3>>
    /\ {2, 3} \subseteq FoundKeys(results)

\* C26 (as claimed): a run that no interrupt disturbs and that has left its
\* loops has fetched every key from its resume point to max_scl, each once,
\* in ascending order, whatever the fetches returned, and it completes.
C26_EveryKeyOnce ==
    (pc \in {"stats", "completed", "crashed"} /\ ~signalled) =>
        /\ fetched = SortedSeq(resume_from..MaxScl)
        /\ pc # "crashed"

\* C30 (as claimed): a run whose resume point is greater than max_scl has
\* fetched no key when it ends, and it ends normally, its statistics
\* computed without an error.
C30_PastEndRunCompletes ==
    (resume_from > MaxScl /\ pc \in {"completed", "crashed"}) =>
        /\ fetched = <<>>
        /\ pc = "completed"


(***************************************************************************)
(* Properties of scrape_range                                              *)
(***************************************************************************)
RangeResultKeys == {r[1] : r \in r_results}
RowsWithKey(f, k) == {f[i] : i \in {j \in 1..Len(f) : f[j].scl = NumCell(k)}}

\* C4: when scrape_range has finished, by completion or after a caught
\* interruption, every data row of the file has an integer key and the keys
\* are strictly ascending (so no key has two rows), whatever the file held.
C4_SortedUnique ==
    r_pc = "done" =>
        /\ \A i \in 1..Len(r_file) : r_file[i].scl.kind = "num"
        /\ \A i, j \in 1..Len(r_file) :
             i < j => IntOf(r_file[i].scl) < IntOf(r_file[j].scl)

\* C4 witness: the file held two rows out of order or of the same key, and
\* the finished run left at least two rows.
C4_Witness ==
    /\ r_pc = "done"
    /\ Len(r_file) >= 2
    /\ \E i, j \in 1..Len(r_file0) :
         /\ i < j
         /\ r_file0[i].scl.kind = "num" /\ r_file0[j].scl.kind = "num"
         /\ IntOf(r_file0[i].scl) >= IntOf(r_file0[j].scl)

\* The row the claim expects for a result row: the key, and for a key
\* without club every other record field empty.
WellFormedResult(k, row) ==
    /\ row.scl = NumCell(k)
    /\ row.nom = "" =>
         /\ row.numero_affiliation = "" /\ row.email = "" /\ row.telephone = ""
         /\ row.adresse = "" /\ row.url_detail = ""

\* C5: after an uninterrupted scrape_range(a, b), every key of [a, b] has in
\* the file exactly the row this run's extraction produced (the club's
\* fields, or the empty placeholder), whatever row it had before.
C5_RowsAreThisRun ==
    (r_pc = "done" /\ ~r_signalled) =>
        /\ RangeResultKeys = r_start..r_end
        /\ \A r \in r_results :
             /\ RowsWithKey(r_file, r[1]) = {r[2]}
             /\ WellFormedResult(r[1], r[2])

\* C5 witness: a key that had a club row in the file was found to have no
\* club, and another row of the file was replaced by this run's club.
C5_Witness ==
    /\ r_pc = "done" /\ ~r_signalled
    /\ \E r \in r_results :
         /\ r[2].nom = ""
         /\ \E old \in RowsWithKey(r_file0, r[1]) : old.nom # ""
         /\ RowsWithKey(r_file, r[1]) = {r[2]}
    /\ \E r \in r_results :
         /\ r[2].nom # ""
         /\ \E old \in RowsWithKey(r_file0, r[1]) : old.nom # r[2].nom

\* C7 (as claimed): when the fetch of the next key starts, the result of
\* every key already processed is in the file.
C7_WriteThrough ==
    r_pc = "loop" => \A r \in r_results : RowsWithKey(r_file, r[1]) = {r[2]}

\* C8 (as claimed): if the process dies during the rewrite, the file is the
\* complete previous content or the complete new content.
C8_AtomicRewrite ==
    r_pc = "dead" =>
        \/ r_exists = r_exists0 /\ r_file = r_file0
        \/ r_file = NewContent(all_data)

\* C22 (as claimed): a row of this run with every field empty is in the
\* file only for a key whose page.content() returned markup; a key whose
\* two navigations failed has no such row.
C22_AbsentRowNeedsMarkup ==
    \A r \in r_results :
        (r[2].nom = "" /\ r[2] \in RowsWithKey(r_file, r[1])) => r[3]

\* The record fields of a row: every column but temps_extraction.
RecordFields(row) ==
    [scl |-> row.scl, nom |-> row.nom,
     numero_affiliation |-> row.numero_affiliation, email |-> row.email,
     telephone |-> row.telephone, adresse |-> row.adresse,
     url_detail |-> row.url_detail]

\* C25: when scrape_range has run twice over the same range, uninterrupted
\* and on unchanged pages, the file has after the second run the rows it had
\* after the first, equal in every record field, whatever the file held
\* before; only temps_extraction may differ.
C25_RescrapeIdempotent ==
    (r_run = 2 /\ r_pc = "done" /\ ~r_signalled) =>
        /\ Len(r_file) = Len(r_file1)
        /\ \A i \in 1..Len(r_file) :
             RecordFields(r_file[i]) = RecordFields(r_file1[i])

\* C25 witness: the second run has rewritten a file that keeps a row from
\* before the runs, outside the range, and a row of a club whose
\* temps_extraction differs from the one of the first run.
C25_Witness ==
    /\ r_run = 2 /\ r_pc = "done" /\ ~r_signalled
    /\ \E i \in 1..Len(r_file) :
         /\ r_file[i].nom = "OLD CLUB"
         /\ IntOf(r_file[i].scl) \notin r_start..r_end
    /\ \E i \in 1..Len(r_file) :
         /\ r_file[i].nom = "CLUB DISTRICT GERS"
         /\ i <= Len(r_file1)
         /\ r_file[i].temps_extraction # r_file1[i].temps_extraction
         /\ RecordFields(r_file[i]) = RecordFields(r_file1[i])

\* The read of lines 44-51 raises: a cell of digits that int() rejects.
ReadRaises(f) ==
    \E i \in 1..Len(f) :
        Truthy(f[i].scl) /\ IsDigit(f[i].scl) /\ IntRaises(f[i].scl)

\* The last row that a file has for a key, if it has one.
LastRowWithKey(f, k) ==
    IF RowsOfKey(f, k) = {} THEN {} ELSE {f[Max(RowsOfKey(f, k))]}

\* The keys outside the range of the run that have a row before or after it.
OutsideKeys == (KeysOf(r_file0) \cup KeysOf(r_file)) \ (r_start..r_end)

\* C27 (as claimed): once scrape_range(a, b) has rewritten the file, every
\* row that the file had for a key outside [a, b] is still in it, with the
\* same values in its record fields.
C27_OutsideRowsUnchanged ==
    r_pc = "done" =>
        \A i \in 1..Len(r_file0) :
            (r_file0[i].scl.kind = "num" /\ IntOf(r_file0[i].scl) \notin r_start..r_end)
                => \E j \in 1..Len(r_file) :
                      RecordFields(r_file[j]) = RecordFields(r_file0[i])

\* C27 (amended): once scrape_range(a, b) has rewritten the file, a key
\* outside [a, b] has in it exactly the last row it had before the run when
\* the read of the file succeeded, and no row at all when the read raised
\* or the file did not exist; earlier rows of a repeated key are gone, and
\* no row is added for a key outside [a, b].
C27_OutsideRowsKept ==
    r_pc = "done" =>
        \A k \in OutsideKeys :
            RowsWithKey(r_file, k) =
                IF r_exists0 /\ ~ReadRaises(r_file0)
                THEN LastRowWithKey(r_file0, k) ELSE {}

\* C27 witness: a run over a range that leaves out a key of the file has
\* rewritten the file; the row of that key is kept and a row inside the
\* range was replaced.
C27_Witness ==
    /\ r_pc = "done" /\ ~ReadRaises(r_file0)
    /\ \E k \in OutsideKeys : RowsWithKey(r_file, k) = RowsWithKey(r_file0, k)
                               /\ RowsWithKey(r_file, k) # {}
    /\ \E k \in r_start..r_end :
         /\ RowsWithKey(r_file0, k) # {}
         /\ RowsWithKey(r_file, k) # RowsWithKey(r_file0, k)

\* C29 (as claimed): when a KeyboardInterrupt arrived while key k was in
\* process and scrape_range has terminated, the file (one that the read
\* accepted) has this run's rows for the keys a..k-1, and every key from k
\* on has no row but rows it had before the run, the last of them included.
C29_InterruptKeepsRest ==
    (r_sigkey # 0 /\ r_pc \in {"done", "aborted"} /\ ~ReadRaises(r_file0)) =>
        /\ \A j \in r_start..(r_sigkey - 1) :
             \E r \in r_results : r[1] = j /\ RowsWithKey(r_file, j) = {r[2]}
        /\ \A j \in KeysOf(r_file0) \cup KeysOf(r_file) :
             j >= r_sigkey =>
                 /\ RowsWithKey(r_file, j) \subseteq RowsWithKey(r_file0, j)
                 /\ LastRowWithKey(r_file0, j) \subseteq RowsWithKey(r_file, j)

\* A row that a process produced and wrote is missing from the file, or
\* the file holds another row for its key.
LostUpdate ==
    \E w \in Workers :
        /\ w_pc[w] = "done"
        /\ \E r \in w_results[w] : RowsWithKey(w_file, r[1]) # {r[2]}

\* C24: two runs of scrape_range over disjoint ranges on one file lose no
\* row as long as neither starts while the other is between its read and
\* its rewrite of the file; a lost update needs runs that overlap in time
\* (the witness is an interleaving that loses one).
C24_LostUpdateNeedsOverlap == LostUpdate => w_overlap

\* C24 witness: the two runs overlapped, both have rewritten the file, and a
\* row that one of them produced is not in the file.
C24_Witness ==
    /\ \A w \in Workers : w_pc[w] = "done"
    /\ w_overlap
    /\ \E w \in Workers : \E r \in w_results[w] : RowsWithKey(w_file, r[1]) = {}

(***************************************************************************)
(* Properties of extract_club_by_scl                                       *)
(***************************************************************************)
\* A navigation for the key succeeded: the first goto, or its retry.
NavSucceeded(page) == page.nav1 = "ok" \/ (page.nav1 # "ok" /\ page.nav2 = "ok")

\* The markup was read and holds an affiliation marker.
HasMarker(page) == page.content = "ok" /\ page.marker # None

\* Some strategy ran and accepted a name: every strategy before it rejected
\* its candidates or raised an Exception that the strategy itself catches.
SomeStrategyAccepted(page) ==
    \E i \in 1..Len(Strategies) :
        /\ StrategyOutcome(page, Strategies[i]) = "accept"
        /\ \A j \in 1..(i - 1) :
             \/ StrategyOutcome(page, Strategies[j]) = "reject"
             \/ /\ StrategyOutcome(page, Strategies[j]) = "error"
                /\ Strategies[j] \in {"h1", "proximity", "other"}

CountCalls(calls, e) == Cardinality({i \in 1..Len(calls) : calls[i] = e})

\* C13: a call that no interrupt disturbs makes one goto, and a second one
\* exactly when the first raised; when both raise it returns None and raises
\* nothing; the settle delay and page.content() come once, after a goto that
\* succeeded, and not at all otherwise.
C13_OneRetry ==
    (x_pc = "returned" /\ x_intr = "none") =>
        /\ CountCalls(x_calls, "goto") = IF x_page.nav1 = "ok" THEN 1 ELSE 2
        /\ x_result.kind \in {"found", "none"}
        /\ ~NavSucceeded(x_page) =>
             /\ x_result.kind = "none"
             /\ CountCalls(x_calls, "sleep") = 0
             /\ CountCalls(x_calls, "content") = 0
        /\ NavSucceeded(x_page) =>
             SubSeq(x_calls, Len(x_calls) - 1, Len(x_calls)) = <<"sleep", "content">>

\* C13 witness: both navigations failed, the call returned None after two
\* gotos.
C13_Witness ==
    /\ x_pc = "returned" /\ x_intr = "none"
    /\ x_page.nav1 # "ok" /\ x_page.nav2 # "ok"
    /\ x_calls = <<"goto", "goto">>
    /\ x_result.kind = "none"

\* C14: the email of a record is the principal capture if there is one,
\* else the official one if there is one, else the other one, else absent.
C14_EmailPriority ==
    (x_pc = "returned" /\ x_result.kind = "found") =>
        LET email == x_result.club.email IN
        /\ x_page.email_principal # None => email = x_page.email_principal
        /\ (x_page.email_principal = None /\ x_page.email_officiel # None) =>
             email = x_page.email_officiel
        /\ (x_page.email_principal = None /\ x_page.email_officiel = None) =>
             email = x_page.email_autre

\* C14 witness: only the official and the other label match, the record has
\* the official address.
C14_Witness ==
    /\ x_pc = "returned" /\ x_result.kind = "found"
    /\ x_page.email_principal = None
    /\ x_page.email_officiel # None /\ x_page.email_autre # None
    /\ x_result.club.email = x_page.email_officiel

\* The digit strings of at least 6 digits among the captures of a label.
PhoneLabels == <<"travail", "domicile", "mobile", "autre", "generic">>
Dialable(captures) ==
    {i \in 1..Len(captures) : Len(DigitsOnly(captures[i])) >= 6}
OnlyDigits(s) == \A i \in 1..Len(s) : IsDigitChar(Char(s, i))

\* C15: the phone of a record is made of digits only, at least 6, and is the
\* digits of the first capture with 6 digits or more of the first label, in
\* the order travail, domicile, mobile, autre, generic, that has such a
\* capture; it is absent when no label has one.
C15_PhonePriority ==
    (x_pc = "returned" /\ x_result.kind = "found") =>
        LET telephone == x_result.club.telephone
            has == {n \in 1..Len(PhoneLabels) :
                      Dialable(x_page.phones[PhoneLabels[n]]) # {}}
        IN /\ telephone # None => OnlyDigits(telephone) /\ Len(telephone) >= 6
           /\ has = {} => telephone = None
           /\ has # {} =>
                LET n == CHOOSE m \in has : \A k \in has : m <= k
                    captures == x_page.phones[PhoneLabels[n]]
                    i == CHOOSE j \in Dialable(captures) :
                            \A k \in Dialable(captures) : j <= k
                IN telephone = DigitsOnly(captures[i])

\* C15 witness: the travail label has only a capture that is too short, the
\* domicile label has a short capture and then a number, the generic label
\* has a number: the record has the number of the domicile label.
C15_Witness ==
    /\ x_pc = "returned" /\ x_result.kind = "found"
    /\ Len(x_page.phones.travail) = 1 /\ Dialable(x_page.phones.travail) = {}
    /\ Dialable(x_page.phones.domicile) = {2}
    /\ Dialable(x_page.phones.generic) # {}
    /\ x_result.club.telephone = DigitsOnly(x_page.phones.domicile[2])

\* Strategy s runs on the page: every strategy before it rejected its texts
\* or raised an Exception that the strategy itself catches.
ReachedBy(page, s) ==
    \E i \in 1..Len(Strategies) :
        /\ Strategies[i] = s
        /\ s \notin page.dom_error
        /\ \A j \in 1..(i - 1) :
             \/ StrategyOutcome(page, Strategies[j]) = "reject"
             \/ /\ StrategyOutcome(page, Strategies[j]) = "error"
                /\ Strategies[j] \in {"h1", "proximity", "other"}

\* Strategy s runs on the single text T and the record has T as its name.
AcceptedBy(s, T) ==
    (ReachedBy(x_page, s) /\ x_page.cand[s] = <<T>>) =>
        /\ x_result.kind = "found"
        /\ x_result.by = s
        /\ x_result.club.nom = T

\* C16 (as claimed): no name of a record contains "district de" without
\* "club district", and the h1, textual, proximity and h2 scan strategies
\* accept a text that contains both and passes their other tests.
C16_DistrictRule ==
    (x_pc = "returned" /\ x_intr = "none" /\ x_page.field_error = "none") =>
        /\ x_result.kind = "found" =>
             LET t == Lower(x_result.club.nom) IN
             ~(Contains(t, "district de") /\ ~Contains(t, "club district"))
        /\ \A s \in {"h1", "regex", "proximity", "h2scan"} :
             AcceptedBy(s, "CLUB DISTRICT DE LA LOIRE")

\* C17 (as claimed): every strategy that has an exclusion list accepts the
\* text "CLUB LIGUE ALSACE", which passes the length, letter and word tests.
C17_ClubLigueAccepted ==
    (x_pc = "returned" /\ x_intr = "none" /\ x_page.field_error = "none") =>
        \A s \in {"h1", "regex", "proximity", "h2scan", "other"} :
            AcceptedBy(s, "CLUB LIGUE ALSACE")

\* C18 (as claimed): the name of a record has 6 to 99 characters, a letter,
\* and more than one word or more than 8 characters.
C18_PlausibleName ==
    (x_pc = "returned" /\ x_result.kind = "found") =>
        LET nom == x_result.club.nom IN
        /\ Len(nom) >= 6 /\ Len(nom) <= 99
        /\ HasAlpha(nom)
        /\ WordCount(nom) > 1 \/ Len(nom) > 8

\* C19 (as claimed): the address of a record is absent or longer than 10
\* characters.
C19_AdresseLongEnough ==
    (x_pc = "returned" /\ x_result.kind = "found") =>
        \/ x_result.club.adresse = None
        \/ Len(x_result.club.adresse) > 10

\* C20 (as claimed): on a page with the marker and an accepted name, an
\* Exception raised in the email, phone or address step leaves the call
\* returning a record, the fields of the other steps as extracted.
C20_FieldErrorIsolated ==
    (/\ x_pc = "returned" /\ x_intr = "none"
     /\ NavSucceeded(x_page) /\ HasMarker(x_page) /\ SomeStrategyAccepted(x_page)
     /\ x_page.field_error # "none") =>
        /\ x_result.kind = "found"
        /\ x_result.club.numero_affiliation = x_page.marker
        /\ x_page.field_error # "email" => x_result.club.email = CoalesceEmail(x_page)
        /\ x_page.field_error # "telephone" =>
             x_result.club.telephone = ExtractTelephone(x_page)

\* C21 (as claimed): a call whose two navigations fail with an error that is
\* no timeout returns None and prints one message, with the key; a call
\* whose two navigations time out returns None and prints nothing.
C21_ErrorLoggedOnce ==
    (x_pc = "returned" /\ x_intr = "none" /\ ~NavSucceeded(x_page)) =>
        /\ x_result.kind = "none"
        /\ (x_page.nav1 = "error" /\ x_page.nav2 = "error") =>
             /\ Len(x_logs) = 1
             /\ x_logs[1].scl = x_scl
        /\ (x_page.nav1 = "timeout" /\ x_page.nav2 = "timeout") => x_logs = <<>>

\* The strategies that accept a text of the page while no strategy before
\* them in the order does.
EarliestAccepting(page) ==
    {Strategies[i] : i \in {n \in 1..Len(Strategies) :
        /\ StrategyOutcome(page, Strategies[n]) = "accept"
        /\ \A j \in 1..(n - 1) : StrategyOutcome(page, Strategies[j]) # "accept"}}

\* C28 (as claimed): the name of a returned record is the candidate of the
\* earliest strategy that accepts one, and an Exception raised inside a
\* strategy does not keep the later strategies from being tried: a page that
\* is fetched, has the marker and has a strategy that accepts a text yields
\* a record named by the earliest such strategy.
C28_EarliestStrategyNames ==
    (x_pc = "returned" /\ x_intr = "none") =>
        /\ x_result.kind = "found" =>
              /\ x_result.by \in EarliestAccepting(x_page)
              /\ x_result.club.nom = CandidateOf(x_page, x_result.by)
        /\ (/\ NavSucceeded(x_page) /\ HasMarker(x_page)
            /\ x_page.marker = "6504" /\ x_page.field_error = "none"
            /\ EarliestAccepting(x_page) # {}) => x_result.kind = "found"

====
